---- MODULE Spec2Model ----
(***************************************************************************)
(* The academic-analyzer frontend as a state machine: one page component   *)
(* is mounted at a time (the route), each page owns its useState fields,   *)
(* requests to the backend are in flight until the backend answers them,   *)
(* and notices go to the layout's toaster.                                 *)
(*                                                                         *)
(* Strings that the code inspects (trim, toLowerCase, includes,            *)
(* localeCompare) are sequences of one-character strings; strings the code *)
(* only passes around or compares whole are TLA+ strings.                  *)
(***************************************************************************)
EXTENDS Integers, Sequences, FiniteSets, TLC

VARIABLES
    view,           \* the mounted page: the route the Navigation links select
    library,        \* LibraryPage state
    upload,         \* UploadPage state
    ask,            \* AskPage state
    tutor,          \* TutorPage state
    research,       \* ResearchPage state
    analyticsPage,  \* AnalyticsPage state
    dashboard,      \* Dashboard state
    inflight,       \* requests of the mounted page, issued and not yet answered
    orphans,        \* how many requests of unmounted pages are not yet answered
    now,            \* the millisecond clock (Date.now())
    last,           \* the last step: what ran, the request it issued or answered, and
                    \* the notice it handed to the toaster
    hist            \* the run of failed calls under way (bookkeeping for the properties)

vars == <<view, library, upload, ask, tutor, research, analyticsPage, dashboard,
          inflight, orphans, now, last, hist>>

(***************************************************************************)
(* Bounds of the model.                                                    *)
(***************************************************************************)
MaxDocs == 2
MaxInFlight == 2
MaxMessages == 2
MaxClock == 0

(***************************************************************************)
(* Strings as sequences of characters.                                     *)
(***************************************************************************)
LowerLetters == <<"a", "b", "c", "d", "e", "f", "g", "h", "i", "j", "k", "l", "m",
                  "n", "o", "p", "q", "r", "s", "t", "u", "v", "w", "x", "y", "z">>
UpperLetters == <<"A", "B", "C", "D", "E", "F", "G", "H", "I", "J", "K", "L", "M",
                  "N", "O", "P", "Q", "R", "S", "T", "U", "V", "W", "X", "Y", "Z">>

IndexIn(c, letters) ==
    IF \E i \in 1..Len(letters) : letters[i] = c
    THEN CHOOSE i \in 1..Len(letters) : letters[i] = c
    ELSE 0

\* String.prototype.toLowerCase, one character
ToLowerChar(c) ==
    IF IndexIn(c, UpperLetters) > 0 THEN LowerLetters[IndexIn(c, UpperLetters)] ELSE c

\* String.prototype.toLowerCase
ToLowerCase(s) == [i \in 1..Len(s) |-> ToLowerChar(s[i])]

\* String.prototype.includes
Includes(hay, needle) ==
    \E i \in 0..(Len(hay) - Len(needle)) :
        SubSeq(hay, i + 1, i + Len(needle)) = needle

\* whitespace as String.prototype.trim sees it
IsSpace(c) == c \in {" ", "\t", "\n"}

RECURSIVE TrimStart(_)
TrimStart(s) ==
    IF s # <<>> /\ IsSpace(Head(s)) THEN TrimStart(Tail(s)) ELSE s

RECURSIVE TrimEnd(_)
TrimEnd(s) ==
    IF s # <<>> /\ IsSpace(s[Len(s)]) THEN TrimEnd(SubSeq(s, 1, Len(s) - 1)) ELSE s

\* String.prototype.trim
Trim(s) == TrimEnd(TrimStart(s))

\* a JavaScript string used as a condition: "" is falsy
Truthy(s) == s # <<>>

(***************************************************************************)
(* String.prototype.localeCompare under the default (root) collation:      *)
(* characters are ordered spaces, punctuation, digits, letters; letters    *)
(* compare without case first, and only when the strings are equal up to   *)
(* case does case decide, lower case first.                                *)
(***************************************************************************)
CollationOrder == <<" ", "_", "-", ".", "0", "1", "2", "3", "4", "5", "6", "7", "8", "9">>

PrimaryWeight(c) ==
    IF IndexIn(ToLowerChar(c), LowerLetters) > 0
    THEN Len(CollationOrder) + IndexIn(ToLowerChar(c), LowerLetters)
    ELSE IndexIn(c, CollationOrder)

TertiaryWeight(c) == IF IndexIn(c, UpperLetters) > 0 THEN 1 ELSE 0

\* the collation weight of a character at a level: 1 primary, 3 tertiary
Weight(c, level) == IF level = 1 THEN PrimaryWeight(c) ELSE TertiaryWeight(c)

RECURSIVE CompareWeights(_, _, _)
CompareWeights(a, b, level) ==
    IF a = <<>> /\ b = <<>> THEN 0
    ELSE IF a = <<>> THEN -1
    ELSE IF b = <<>> THEN 1
    ELSE IF Weight(Head(a), level) < Weight(Head(b), level) THEN -1
    ELSE IF Weight(Head(a), level) > Weight(Head(b), level) THEN 1
    ELSE CompareWeights(Tail(a), Tail(b), level)

LocaleCompare(a, b) ==
    IF CompareWeights(a, b, 1) # 0
    THEN CompareWeights(a, b, 1)
    ELSE CompareWeights(a, b, 3)

(***************************************************************************)
(* Documents.  upload_date is an ISO-8601 string: a local time and a zone  *)
(* offset, both in minutes; two different strings can name one instant.    *)
(* complexity_score is kept in hundredths.                                 *)
(***************************************************************************)
\* new Date(s).getTime()
DateGetTime(s) == s.local - s.off

ALL == <<"a", "l", "l">>

\* the documents fetchDocuments installs
sampleDocs == <<
    [document_id |-> "doc_001",
     filename |-> <<"M","a","c","h","i","n","e"," ","L","e","a","r","n","i","n","g"," ",
                    "F","u","n","d","a","m","e","n","t","a","l","s",".","p","d","f">>,
     subject |-> <<"M","a","c","h","i","n","e"," ","L","e","a","r","n","i","n","g">>,
     upload_date |-> [local |-> 20790, off |-> 0],
     complexity_score |-> 75],
    [document_id |-> "doc_002",
     filename |-> <<"I","n","t","r","o","d","u","c","t","i","o","n"," ","t","o"," ",
                    "N","e","u","r","a","l"," ","N","e","t","w","o","r","k","s",".","p","d","f">>,
     subject |-> <<"D","e","e","p"," ","L","e","a","r","n","i","n","g">>,
     upload_date |-> [local |-> 13820, off |-> 0],
     complexity_score |-> 85],
    [document_id |-> "doc_003",
     filename |-> <<"D","a","t","a"," ","S","c","i","e","n","c","e"," ",
                    "M","e","t","h","o","d","s",".","p","d","f">>,
     subject |-> <<"D","a","t","a"," ","S","c","i","e","n","c","e">>,
     upload_date |-> [local |-> 6315, off |-> 0],
     complexity_score |-> 65] >>


(***************************************************************************)
(* LibraryPage: the derived lists.                                         *)
(***************************************************************************)
LibraryInit ==
    [documents |-> <<>>, loading |-> TRUE, searchTerm |-> <<>>,
     sortBy |-> "upload_date", filterBy |-> ALL]

\* matchesSearch without toLowerCase() on the search term
MatchesSearchTermAsTyped(doc, searchTerm) ==
    \/ Includes(ToLowerCase(doc.filename), searchTerm)
    \/ Includes(ToLowerCase(doc.subject), searchTerm)

\* matchesSearch of the filter callback
MatchesSearch(doc, searchTerm) ==
    \/ Includes(ToLowerCase(doc.filename), ToLowerCase(searchTerm))
    \/ Includes(ToLowerCase(doc.subject), ToLowerCase(searchTerm))

\* matchesFilter of the filter callback
MatchesFilter(doc, filterBy) == filterBy = ALL \/ doc.subject = filterBy

\* documents.filter(...)
FilterDocs(docs, searchTerm, filterBy) ==
    SelectSeq(docs, LAMBDA doc : MatchesSearch(doc, searchTerm) /\ MatchesFilter(doc, filterBy))

\* the comparator with the operands of the date difference swapped
CompareDocsOldestFirst(sortBy, a, b) ==
    CASE sortBy = "upload_date" -> DateGetTime(a.upload_date) - DateGetTime(b.upload_date)
      [] sortBy = "filename" -> LocaleCompare(a.filename, b.filename)
      [] sortBy = "complexity" -> b.complexity_score - a.complexity_score
      [] OTHER -> 0

\* the comparator handed to sort
CompareDocs(sortBy, a, b) ==
    CASE sortBy = "upload_date" -> DateGetTime(b.upload_date) - DateGetTime(a.upload_date)
      [] sortBy = "filename" -> LocaleCompare(a.filename, b.filename)
      [] sortBy = "complexity" -> b.complexity_score - a.complexity_score
      [] OTHER -> 0

\* a sort that keeps one of the elements that compare equal
InsertSortedUnique(x, sorted, sortBy) ==
    IF \E i \in 1..Len(sorted) : sorted[i] = x THEN sorted ELSE <<x>> \o sorted

\* Array.prototype.sort is stable: an element goes behind every element that
\* does not compare greater than it
RECURSIVE InsertSorted(_, _, _)
InsertSorted(x, sorted, sortBy) ==
    IF sorted = <<>> THEN <<x>>
    ELSE IF CompareDocs(sortBy, Head(sorted), x) > 0 THEN <<x>> \o sorted
    ELSE <<Head(sorted)>> \o InsertSorted(x, Tail(sorted), sortBy)

RECURSIVE SortDocs(_, _)
SortDocs(docs, sortBy) ==
    IF docs = <<>> THEN <<>>
    ELSE InsertSorted(docs[Len(docs)], SortDocs(SubSeq(docs, 1, Len(docs) - 1), sortBy), sortBy)

filteredDocuments == FilterDocs(library.documents, library.searchTerm, library.filterBy)

sortedDocuments == SortDocs(filteredDocuments, library.sortBy)

\* [...new Set(documents.map(doc => doc.subject))]
subjects == {library.documents[i].subject : i \in 1..Len(library.documents)}


(***************************************************************************)
(* What every page shares: the routes, the requests in flight, the         *)
(* notices, the response bodies.                                           *)
(***************************************************************************)
\* navItems
Views == {"dashboard", "upload", "ask", "library", "tutor", "research", "analytics"}

\* null / undefined
Null == [null |-> TRUE]
Undefined == "undefined"

NoToast == [kind |-> "none", text |-> ""]
ToastError(text) == [kind |-> "error", text |-> text]
ToastSuccess(text) == [kind |-> "success", text |-> text]

\* a call of an apiService function by a page: the request it sends (op, body),
\* what the awaiting handler closed over (ctx) and the control that made the
\* call (via)
Request(op, body, ctx, page, via) ==
    [op |-> op, body |-> body, ctx |-> ctx, page |-> page, via |-> via]

NoReq == [op |-> "none"]

\* a request that has been answered, data the body of the response (null when
\* the call failed)
Answered(req, data) ==
    [op |-> req.op, body |-> req.body, ctx |-> req.ctx, page |-> req.page,
     via |-> req.via, data |-> data]

\* what a handler that made no call was handed: the file picked, the text submitted
Picked(file) == [op |-> "none", file |-> file]
Submitted(text) == [op |-> "none", text |-> text]

RemoveAt(seq, i) == SubSeq(seq, 1, i - 1) \o SubSeq(seq, i + 1, Len(seq))

Take(seq, n) == SubSeq(seq, 1, IF Len(seq) < n THEN Len(seq) ELSE n)

Elements(seq) == {seq[i] : i \in 1..Len(seq)}

LiveRequests == 1..Len(inflight)

\* the text a user can type into a field
TypedTexts == {<<>>, <<" ">>, <<" ", "q">>}

\* what a step did
Step(ev, page, req, notice) == [ev |-> ev, page |-> page, req |-> req, toast |-> notice]

(***************************************************************************)
(* The pages' state, requests and response bodies.                         *)
(***************************************************************************)
NoFile == [none |-> TRUE]

\* the files a user can pick in the file dialog
FilePool ==
    {[name |-> "paper.pdf", type |-> "application/pdf", size |-> 1],
     [name |-> "empty.pdf", type |-> "application/pdf", size |-> 0],
     [name |-> "notes.txt", type |-> "text/plain", size |-> 1]}

UploadInit ==
    [file |-> NoFile, subject |-> <<>>, uploading |-> FALSE, uploadResult |-> Null]

AskInit ==
    [messages |-> <<>>, input |-> <<>>, loading |-> FALSE, selectedDocument |-> "all"]

TutorInit == [messages |-> <<>>, message |-> <<>>, loading |-> FALSE]

ResearchInit ==
    [topic |-> <<>>, suggestions |-> <<>>, loading |-> FALSE, searchHistory |-> <<>>]

AnalyticsInit == [analytics |-> Null, loading |-> TRUE, timeRange |-> "30days"]

DashboardInit == [analytics |-> Null, loading |-> TRUE]

\* apiService.uploadPDF(file, subject, userId)
UploadPDF(file, subject, userId) ==
    Request("uploadPDF", [file |-> file, subject |-> subject, user_id |-> userId],
            <<>>, "upload", "upload-button")

\* apiService.askQuestion(question, documentId, userId)
AskQuestion(question, documentId, userId) ==
    Request("askQuestion",
            [question |-> question, document_id |-> documentId, user_id |-> userId],
            <<>>, "ask", "submit")

\* apiService.submitFeedback(interactionId, rating), comments defaulted
SubmitFeedback(interactionId, rating) ==
    Request("submitFeedback",
            [interaction_id |-> interactionId, rating |-> rating, comments |-> ""],
            <<>>, "ask", "feedback")

\* apiService.chatTutor(message), context defaulted
ChatTutor(message, via) ==
    Request("chatTutor", [question |-> message, context |-> ""], <<>>, "tutor", via)

\* apiService.getResearchSuggestions(topic); handleSearch keeps topic and
\* searchHistory of the render it was called in
GetResearchSuggestions(topic, searchHistory) ==
    Request("getResearchSuggestions", [topic |-> topic],
            [topic |-> topic, included |-> topic \in Elements(searchHistory)],
            "research", "submit")

\* apiService.getAnalytics(userId, timeRange)
GetAnalytics(userId, timeRange, page, via) ==
    Request("getAnalytics", [user_id |-> userId, time_range |-> timeRange],
            <<>>, page, via)

\* the response bodies of POST /upload_pdf
UploadPayloads(req) ==
    {[null |-> FALSE, document_id |-> "doc_101", chunks |-> 3, complexity_score |-> 40],
     [null |-> FALSE, document_id |-> "doc_102", chunks |-> 0, complexity_score |-> 90],
     Null}

\* an entry of sources; relevance_score is kept in thousandths
Source(document, chunk, score) ==
    [document |-> document, chunk_id |-> chunk, relevance_score |-> score,
     preview |-> "..."]

\* the response bodies of POST /ask
AskPayloads(req) ==
    {[null |-> FALSE, answer |-> "A1", sources |-> <<>>,
      tutor_explanation |-> Undefined, interaction_id |-> Undefined],
     [null |-> FALSE, answer |-> "A2",
      sources |-> <<Source("a.pdf", "c1", 900), Source("b.pdf", "c2", 954),
                    Source("a.pdf", "c3", 405), Source("c.pdf", "c4", 300)>>,
      tutor_explanation |-> "T2", interaction_id |-> "i2"],
     Null}

\* the response bodies of POST /agents/tutor
TutorPayloads(req) == {[null |-> FALSE, response |-> "R1"], Null}

\* the response bodies of POST /agents/researcher
ResearchPayloads(req) ==
    {[null |-> FALSE, suggestions |-> <<"on", req.body.topic>>],
     [null |-> FALSE, suggestions |-> <<>>],
     Null}

\* the response bodies of GET /analytics/progress/{user_id}
AnalyticsPayloads(req) ==
    {[null |-> FALSE, time_range |-> req.body.time_range, total_questions |-> 0],
     [null |-> FALSE, time_range |-> req.body.time_range, total_questions |-> 7],
     Null}

\* the response bodies of POST /feedback
FeedbackPayloads(req) == {[null |-> FALSE, status |-> "ok"]}

Payloads(req) ==
    CASE req.op = "uploadPDF" -> UploadPayloads(req)
      [] req.op = "askQuestion" -> AskPayloads(req)
      [] req.op = "chatTutor" -> TutorPayloads(req)
      [] req.op = "getResearchSuggestions" -> ResearchPayloads(req)
      [] req.op = "getAnalytics" -> AnalyticsPayloads(req)
      [] req.op = "submitFeedback" -> FeedbackPayloads(req)

\* the Quick Questions of AskPage
quickQuestions ==
    << <<"What is the main topic of this document?">>,
       <<"Can you summarize the key points?">>,
       <<"What are the main conclusions?">>,
       <<"Explain the methodology used.">> >>

\* quickPrompts of TutorPage (their text)
quickPrompts ==
    << <<"Help me understand this concept better">>,
       <<"Create a study plan for this topic">>,
       <<"Explain this in simpler terms">>,
       <<"Give me practice questions">> >>

trendingTopics ==
    << <<"Machine Learning">>, <<"Artificial Intelligence">>, <<"Climate Change">>,
       <<"Quantum Computing">>, <<"Blockchain">>, <<"Neuroscience">>,
       <<"Space Exploration">> >>

\* researchAreas (their name)
researchAreas ==
    << <<"Computer Science">>, <<"Medicine">>, <<"Physics">>, <<"Biology">>,
       <<"Psychology">>, <<"Economics">> >>

\* of a list of buttons that differ in their text only, the one a user of the
\* model presses: the first
Pressed(list) == {Head(list)}

(***************************************************************************)
(* The controls: each disabled attribute and render condition, negated.    *)
(***************************************************************************)
\* the upload button
UploadButtonEnabled ==
    ~(upload.file = NoFile \/ ~Truthy(upload.subject) \/ upload.uploading)

\* AskPage's submit button
AskSubmitEnabled == ~(~Truthy(Trim(ask.input)) \/ ask.loading)

\* the interaction ids that have feedback buttons
FeedbackIds ==
    {ask.messages[i].interaction_id : i \in {j \in 1..Len(ask.messages) :
        /\ ask.messages[j].type = "assistant"
        /\ ask.messages[j].interaction_id \notin {Undefined, ""}}}

\* TutorPage's submit button
TutorSubmitEnabled == ~(~Truthy(Trim(tutor.message)) \/ tutor.loading)

\* ResearchPage's submit button
ResearchSubmitEnabled == ~(research.loading \/ ~Truthy(Trim(research.topic)))

\* AnalyticsPage renders the time-range buttons after the two early returns
RangeButtonsRendered == ~analyticsPage.loading /\ analyticsPage.analytics # Null

\* LibraryPage renders its controls after the early return
LibraryRendered == ~library.loading

\* the controls of the mounted page that are enabled: fields, and the controls
\* that call the gateway
Controls ==
    CASE view = "upload" ->
           [inputs |-> {"file", "subject"},
            triggers |-> IF UploadButtonEnabled THEN {"upload-button"} ELSE {}]
      [] view = "ask" ->
           [inputs |-> IF ask.loading THEN {} ELSE {"input"},
            triggers |-> (IF AskSubmitEnabled THEN {"submit"} ELSE {})
                         \cup (IF FeedbackIds # {} THEN {"feedback"} ELSE {})]
      [] view = "tutor" ->
           [inputs |-> IF tutor.loading THEN {} ELSE {"message"},
            triggers |-> (IF TutorSubmitEnabled THEN {"submit"} ELSE {})
                         \cup {"quick-prompt"}]
      [] view = "research" ->
           [inputs |-> IF research.loading THEN {} ELSE {"topic"},
            triggers |-> IF ResearchSubmitEnabled THEN {"submit"} ELSE {}]
      [] view = "analytics" ->
           [inputs |-> {},
            triggers |-> IF RangeButtonsRendered THEN {"range-button"} ELSE {}]
      [] view = "library" ->
           [inputs |-> IF LibraryRendered THEN {"search"} ELSE {}, triggers |-> {}]
      [] OTHER -> [inputs |-> {}, triggers |-> {}]

\* the loading flag of the mounted page
Loading ==
    CASE view = "upload" -> upload.uploading
      [] view = "ask" -> ask.loading
      [] view = "tutor" -> tutor.loading
      [] view = "research" -> research.loading
      [] view = "analytics" -> analyticsPage.loading
      [] view = "dashboard" -> dashboard.loading
      [] OTHER -> library.loading

\* the controls of a page whose handlers make the call of a request
Retriggers(req) ==
    CASE req.op = "uploadPDF" -> {"upload-button"}
      [] req.op = "askQuestion" -> {"submit"}
      [] req.op = "submitFeedback" -> {"feedback"}
      [] req.op = "chatTutor" -> {"submit", "quick-prompt"}
      [] req.op = "getResearchSuggestions" -> {"submit"}
      [] req.op = "getAnalytics" /\ req.page = "analytics" -> {"range-button"}
      [] OTHER -> {}

(***************************************************************************)
(* Bookkeeping: the run of consecutive failed calls of one operation, made *)
(* with no other call outstanding, and the controls before its first call. *)
(***************************************************************************)
NoControls == [inputs |-> {}, triggers |-> {}]

HistInit == [op |-> "none", streak |-> 0, before |-> NoControls]

HistOnIssue(req) ==
    IF LiveRequests # {} THEN HistInit
    ELSE IF hist.op = req.op /\ hist.streak = 1 THEN hist
    ELSE [op |-> req.op, streak |-> 0, before |-> Controls]

HistOnResponse(req, ok) ==
    IF req.op = hist.op /\ hist.streak < 2
    THEN IF ok THEN HistInit ELSE [hist EXCEPT !.streak = hist.streak + 1]
    ELSE HistInit


(***************************************************************************)
(* UploadPage                                                              *)
(***************************************************************************)
\* handleFileChange without the test of the MIME type
HandleFileChangeAnyType(selectedFile) ==
    /\ view = "upload"
    /\ upload' = IF selectedFile # NoFile THEN [upload EXCEPT !.file = selectedFile]
                 ELSE upload
    /\ last' = Step("fileChange", "upload", Picked(selectedFile), NoToast)
    /\ UNCHANGED <<view, library, ask, tutor, research, analyticsPage, dashboard,
                   inflight, orphans, now>>

\* handleFileChange(e), e.target.files?.[0] = selectedFile (NoFile: none picked)
HandleFileChange(selectedFile) ==
    /\ view = "upload"
    /\ IF selectedFile # NoFile
       THEN IF selectedFile.type = "application/pdf"
            THEN /\ upload' = [upload EXCEPT !.file = selectedFile]
                 /\ last' = Step("fileChange", "upload", Picked(selectedFile), NoToast)
            ELSE /\ upload' = upload
                 /\ last' = Step("fileChange", "upload", Picked(selectedFile),
                                 ToastError("Invalid file type. Please select a PDF file."))
       ELSE /\ upload' = upload
            /\ last' = Step("fileChange", "upload", Picked(selectedFile), NoToast)
    /\ UNCHANGED <<view, library, ask, tutor, research, analyticsPage, dashboard,
                   inflight, orphans, now>>

\* the subject input's onChange
SetSubject(text) ==
    /\ view = "upload"
    /\ upload' = [upload EXCEPT !.subject = text]
    /\ last' = Step("setSubject", "upload", NoReq, NoToast)
    /\ UNCHANGED <<view, library, ask, tutor, research, analyticsPage, dashboard,
                   inflight, orphans, now>>

\* the early return of handleUpload without trim()
UploadInvalidUntrimmed == upload.file = NoFile \/ ~Truthy(upload.subject)

\* the early return of handleUpload
UploadInvalid == upload.file = NoFile \/ ~Truthy(Trim(upload.subject))

\* handleUpload, up to the await
HandleUpload ==
    /\ view = "upload"
    /\ IF UploadInvalid
       THEN /\ last' = Step("rejected", "upload", NoReq,
                            ToastError("Please select a file and enter a subject."))
            /\ UNCHANGED <<upload, inflight, orphans>>
       ELSE /\ Len(inflight) + orphans < MaxInFlight
            /\ upload' = [upload EXCEPT !.uploading = TRUE]
            /\ UNCHANGED orphans
            /\ inflight' = Append(inflight, UploadPDF(upload.file, upload.subject, "cli_user"))
            /\ last' = Step("issued", "upload",
                            UploadPDF(upload.file, upload.subject, "cli_user"), NoToast)
    /\ UNCHANGED <<view, library, ask, tutor, research, analyticsPage, dashboard, now>>

\* a click on the upload button
ClickUpload == UploadButtonEnabled /\ HandleUpload


\* handleUpload, from the await on, without the finally block
UploadOnResponseNoFinally(req, ok, data) ==
    /\ upload' = IF ok
                 THEN [upload EXCEPT !.uploadResult = data, !.file = NoFile,
                                     !.subject = <<>>, !.uploading = FALSE]
                 ELSE upload
    /\ UNCHANGED <<library, ask, tutor, research, analyticsPage, dashboard, now>>

\* handleUpload, from the await on, without the reset of the form
UploadOnResponseKeepingForm(req, ok, data) ==
    /\ upload' = IF ok
                 THEN [upload EXCEPT !.uploadResult = data, !.uploading = FALSE]
                 ELSE [upload EXCEPT !.uploading = FALSE]
    /\ UNCHANGED <<library, ask, tutor, research, analyticsPage, dashboard, now>>

\* handleUpload, from the await on: the response (ok, data) has arrived
UploadOnResponse(req, ok, data) ==
    /\ upload' = IF ok
                 THEN [upload EXCEPT !.uploadResult = data, !.file = NoFile,
                                     !.subject = <<>>, !.uploading = FALSE]
                 ELSE [upload EXCEPT !.uploading = FALSE]
    /\ UNCHANGED <<library, ask, tutor, research, analyticsPage, dashboard, now>>

(***************************************************************************)
(* AskPage                                                                 *)
(***************************************************************************)
\* the input's onChange; the input is disabled while loading
SetInput(text) ==
    /\ view = "ask"
    /\ ~ask.loading
    /\ ask' = [ask EXCEPT !.input = text]
    /\ last' = Step("setInput", "ask", NoReq, NoToast)
    /\ UNCHANGED <<view, library, upload, tutor, research, analyticsPage, dashboard,
                   inflight, orphans, now>>

\* a Quick Questions button: setInput(question)
QuickQuestion(question) ==
    /\ view = "ask"
    /\ ask' = [ask EXCEPT !.input = question]
    /\ last' = Step("quickQuestion", "ask", NoReq, NoToast)
    /\ UNCHANGED <<view, library, upload, tutor, research, analyticsPage, dashboard,
                   inflight, orphans, now>>

\* the All Documents button: setSelectedDocument("all")
SelectAllDocuments ==
    /\ view = "ask"
    /\ ask' = [ask EXCEPT !.selectedDocument = "all"]
    /\ last' = Step("selectDocument", "ask", NoReq, NoToast)
    /\ UNCHANGED <<view, library, upload, tutor, research, analyticsPage, dashboard,
                   inflight, orphans, now>>

UserMessage(id, content) ==
    [id |-> id, type |-> "user", content |-> content, sources |-> Undefined,
     tutor_explanation |-> Undefined, interaction_id |-> Undefined]

AssistantMessage(id, data) ==
    [id |-> id, type |-> "assistant", content |-> data.answer, sources |-> data.sources,
     tutor_explanation |-> data.tutor_explanation, interaction_id |-> data.interaction_id]

\* (x * 100).toFixed(0) of a number kept in thousandths: the nearest whole
\* number of hundredths
ToPercent(x) == (x + 5) \div 10

\* what the Sources block shows of one source: its document, its relevance in
\* the badge, its preview
RenderedSource(source) ==
    [document |-> source.document, badge |-> ToPercent(source.relevance_score),
     preview |-> source.preview]

\* the Sources block of a message: message.sources.slice(0, 3).map(...), under
\* an assistant message that has sources
RenderedSources(message) ==
    IF message.type = "assistant" /\ Len(message.sources) > 0
    THEN [i \in 1..Len(Take(message.sources, 3)) |-> RenderedSource(message.sources[i])]
    ELSE <<>>

\* the early return of AskPage's handleSubmit without trim()
AskRejectsUntrimmed == ~Truthy(ask.input) \/ ask.loading

\* the early return of AskPage's handleSubmit
AskRejects == ~Truthy(Trim(ask.input)) \/ ask.loading

\* AskPage's handleSubmit, up to the await; t is what Date.now() returns
AskHandleSubmit(t) ==
    /\ view = "ask"
    /\ IF AskRejects
       THEN /\ last' = Step("rejected", "ask", Submitted(ask.input), NoToast)
            /\ UNCHANGED <<ask, inflight, orphans, now>>
       ELSE /\ Len(inflight) + orphans < MaxInFlight
            /\ Len(ask.messages) < MaxMessages
            /\ t >= now
            /\ ask' = [ask EXCEPT !.messages = Append(@, UserMessage(t, ask.input)),
                                  !.input = <<>>, !.loading = TRUE]
            /\ UNCHANGED orphans
            /\ inflight' = Append(inflight,
                                  AskQuestion(ask.input, ask.selectedDocument, "cli_user"))
            /\ now' = t
            /\ last' = Step("issued", "ask",
                            AskQuestion(ask.input, ask.selectedDocument, "cli_user"), NoToast)
    /\ UNCHANGED <<view, library, upload, tutor, research, analyticsPage, dashboard>>

\* the form is submitted through its submit button
AskFormSubmit(t) == AskSubmitEnabled /\ AskHandleSubmit(t)

\* handleSubmit, from the await on, taking the question back out of the
\* transcript when the call failed
AskOnResponseRollback(req, ok, data, t) ==
    /\ IF ok /\ data # Null
       THEN /\ t >= now
            /\ ask' = [ask EXCEPT !.messages = Append(@, AssistantMessage(t + 1, data)),
                                  !.loading = FALSE]
            /\ now' = t
       ELSE /\ ask' = [ask EXCEPT !.messages = SubSeq(@, 1, Len(@) - 1),
                                  !.loading = FALSE]
            /\ now' = now
    /\ UNCHANGED <<library, upload, tutor, research, analyticsPage, dashboard>>

\* AskPage's handleSubmit, from the await on; reading a field of a null body throws
AskOnResponse(req, ok, data, t) ==
    /\ IF ok /\ data # Null
       THEN /\ t >= now
            /\ ask' = [ask EXCEPT !.messages = Append(@, AssistantMessage(t + 1, data)),
                                  !.loading = FALSE]
            /\ now' = t
       ELSE /\ ask' = [ask EXCEPT !.loading = FALSE]
            /\ now' = now
    /\ UNCHANGED <<library, upload, tutor, research, analyticsPage, dashboard>>

\* handleFeedback that sets the page loading while the feedback is sent
HandleFeedbackBlocking(interactionId, rating) ==
    /\ view = "ask"
    /\ interactionId \in FeedbackIds
    /\ Len(inflight) + orphans < MaxInFlight
    /\ ask' = [ask EXCEPT !.loading = TRUE]
    /\ inflight' = Append(inflight, SubmitFeedback(interactionId, rating))
    /\ last' = Step("issued", "ask", SubmitFeedback(interactionId, rating), NoToast)
    /\ UNCHANGED <<view, library, upload, tutor, research, analyticsPage, dashboard,
                   orphans, now>>

\* handleFeedback(interactionId, rating), sending the rating as 1 or 0
HandleFeedbackThumbScale(interactionId, rating) ==
    /\ view = "ask"
    /\ interactionId \in FeedbackIds
    /\ Len(inflight) + orphans < MaxInFlight
    /\ UNCHANGED orphans
    /\ inflight' = Append(inflight,
                          SubmitFeedback(interactionId, IF rating = 5 THEN 1 ELSE 0))
    /\ last' = Step("issued", "ask",
                    SubmitFeedback(interactionId, IF rating = 5 THEN 1 ELSE 0), NoToast)
    /\ UNCHANGED <<view, library, upload, ask, tutor, research, analyticsPage, dashboard,
                   now>>

\* handleFeedback(interactionId, rating), up to the await
HandleFeedback(interactionId, rating) ==
    /\ view = "ask"
    /\ interactionId \in FeedbackIds
    /\ Len(inflight) + orphans < MaxInFlight
    /\ UNCHANGED orphans
    /\ inflight' = Append(inflight, SubmitFeedback(interactionId, rating))
    /\ last' = Step("issued", "ask", SubmitFeedback(interactionId, rating), NoToast)
    /\ UNCHANGED <<view, library, upload, ask, tutor, research, analyticsPage, dashboard,
                   now>>

\* copyToClipboard(text)
CopyToClipboard ==
    /\ view = "ask"
    /\ \E i \in 1..Len(ask.messages) : ask.messages[i].type = "assistant"
    /\ last' = Step("copy", "ask", NoReq, ToastSuccess("Answer copied to clipboard."))
    /\ UNCHANGED <<view, library, upload, ask, tutor, research, analyticsPage, dashboard,
                   inflight, orphans, now>>


(***************************************************************************)
(* TutorPage                                                               *)
(***************************************************************************)
\* the input's onChange; the input is disabled while loading
SetMessage(text) ==
    /\ view = "tutor"
    /\ ~tutor.loading
    /\ tutor' = [tutor EXCEPT !.message = text]
    /\ last' = Step("setMessage", "tutor", NoReq, NoToast)
    /\ UNCHANGED <<view, library, upload, ask, research, analyticsPage, dashboard,
                   inflight, orphans, now>>

TutorUserMessage(id, content) ==
    [id |-> id, type |-> "user", content |-> content, category |-> Undefined]

TutorReply(id, data) ==
    [id |-> id, type |-> "tutor", content |-> data.response, category |-> "Response"]

\* inputMessage || message
MessageToSend(inputMessage) == IF Truthy(inputMessage) THEN inputMessage ELSE tutor.message

\* the early return of handleSend without the test of loading
TutorRejectsBlankOnly(inputMessage) == ~Truthy(Trim(MessageToSend(inputMessage)))

\* the early return of handleSend
TutorRejects(inputMessage) == ~Truthy(Trim(MessageToSend(inputMessage))) \/ tutor.loading

\* handleSend, up to the await, leaving the text in the field
HandleSendKeepingText(inputMessage, via, t) ==
    /\ view = "tutor"
    /\ IF TutorRejects(inputMessage)
       THEN /\ last' = Step("rejected", "tutor", Submitted(MessageToSend(inputMessage)),
                            NoToast)
            /\ UNCHANGED <<tutor, inflight, orphans, now>>
       ELSE /\ Len(inflight) + orphans < MaxInFlight
            /\ Len(tutor.messages) < MaxMessages
            /\ t >= now
            /\ tutor' = [tutor EXCEPT
                           !.messages = Append(@, TutorUserMessage(t, MessageToSend(inputMessage))),
                           !.loading = TRUE]
            /\ UNCHANGED orphans
            /\ inflight' = Append(inflight, ChatTutor(MessageToSend(inputMessage), via))
            /\ now' = t
            /\ last' = Step("issued", "tutor",
                            ChatTutor(MessageToSend(inputMessage), via), NoToast)
    /\ UNCHANGED <<view, library, upload, ask, research, analyticsPage, dashboard>>

\* handleSend(inputMessage), up to the await; no argument is the empty string here
HandleSend(inputMessage, via, t) ==
    /\ view = "tutor"
    /\ IF TutorRejects(inputMessage)
       THEN /\ last' = Step("rejected", "tutor", Submitted(MessageToSend(inputMessage)),
                            NoToast)
            /\ UNCHANGED <<tutor, inflight, orphans, now>>
       ELSE /\ Len(inflight) + orphans < MaxInFlight
            /\ Len(tutor.messages) < MaxMessages
            /\ t >= now
            /\ tutor' = [tutor EXCEPT
                           !.messages = Append(@, TutorUserMessage(t, MessageToSend(inputMessage))),
                           !.message = <<>>, !.loading = TRUE]
            /\ UNCHANGED orphans
            /\ inflight' = Append(inflight, ChatTutor(MessageToSend(inputMessage), via))
            /\ now' = t
            /\ last' = Step("issued", "tutor",
                            ChatTutor(MessageToSend(inputMessage), via), NoToast)
    /\ UNCHANGED <<view, library, upload, ask, research, analyticsPage, dashboard>>

\* TutorPage's handleSubmit, through the submit button
TutorFormSubmit(t) == TutorSubmitEnabled /\ HandleSend(<<>>, "submit", t)

\* a quick prompt button: handleSend(prompt.text)
TutorQuickPrompt(text, t) == HandleSend(text, "quick-prompt", t)

\* handleSend, from the await on, putting the reply in front of the transcript
TutorOnResponsePrepending(req, ok, data, t) ==
    /\ IF ok /\ data # Null
       THEN /\ t >= now
            /\ tutor' = [tutor EXCEPT !.messages = <<TutorReply(t + 1, data)>> \o @,
                                      !.loading = FALSE]
            /\ now' = t
       ELSE /\ tutor' = [tutor EXCEPT !.loading = FALSE]
            /\ now' = now
    /\ UNCHANGED <<library, upload, ask, research, analyticsPage, dashboard>>

\* handleSend, from the await on, without the finally block
TutorOnResponseNoFinally(req, ok, data, t) ==
    /\ IF ok /\ data # Null
       THEN /\ t >= now
            /\ tutor' = [tutor EXCEPT !.messages = Append(@, TutorReply(t + 1, data)),
                                      !.loading = FALSE]
            /\ now' = t
       ELSE /\ tutor' = tutor
            /\ now' = now
    /\ UNCHANGED <<library, upload, ask, research, analyticsPage, dashboard>>

\* handleSend, from the await on
TutorOnResponse(req, ok, data, t) ==
    /\ IF ok /\ data # Null
       THEN /\ t >= now
            /\ tutor' = [tutor EXCEPT !.messages = Append(@, TutorReply(t + 1, data)),
                                      !.loading = FALSE]
            /\ now' = t
       ELSE /\ tutor' = [tutor EXCEPT !.loading = FALSE]
            /\ now' = now
    /\ UNCHANGED <<library, upload, ask, research, analyticsPage, dashboard>>

(***************************************************************************)
(* ResearchPage                                                            *)
(***************************************************************************)
\* the topic input's onChange; the input is disabled while loading
TypeTopic(text) ==
    /\ view = "research"
    /\ ~research.loading
    /\ research' = [research EXCEPT !.topic = text]
    /\ last' = Step("setTopic", "research", NoReq, NoToast)
    /\ UNCHANGED <<view, library, upload, ask, tutor, analyticsPage, dashboard,
                   inflight, orphans, now>>

\* a trending badge, a research area or a recent search: setTopic(text)
PickTopic(text) ==
    /\ view = "research"
    /\ research' = [research EXCEPT !.topic = text]
    /\ last' = Step("pickTopic", "research", NoReq, NoToast)
    /\ UNCHANGED <<view, library, upload, ask, tutor, analyticsPage, dashboard,
                   inflight, orphans, now>>

\* the topics that have a button: trendingTopics.slice(0, 5), researchAreas,
\* searchHistory.slice(0, 5)
TopicButtons ==
    Pressed(Take(trendingTopics, 5) \o researchAreas)
        \cup Elements(Take(research.searchHistory, 5))

\* the early return of handleSearch
ResearchRejects == ~Truthy(Trim(research.topic))

\* handleSearch, up to the await
HandleSearch ==
    /\ view = "research"
    /\ IF ResearchRejects
       THEN /\ last' = Step("rejected", "research", Submitted(research.topic), NoToast)
            /\ UNCHANGED <<research, inflight, orphans>>
       ELSE /\ Len(inflight) + orphans < MaxInFlight
            /\ research' = [research EXCEPT !.loading = TRUE]
            /\ UNCHANGED orphans
            /\ inflight' = Append(inflight,
                    GetResearchSuggestions(research.topic, research.searchHistory))
            /\ last' = Step("issued", "research",
                    GetResearchSuggestions(research.topic, research.searchHistory), NoToast)
    /\ UNCHANGED <<view, library, upload, ask, tutor, analyticsPage, dashboard, now>>

\* ResearchPage's handleSubmit, through the submit button
ResearchFormSubmit == ResearchSubmitEnabled /\ HandleSearch

\* the results are rendered when suggestions is a non-empty string
SuggestionsShown == Truthy(research.suggestions)

\* the topic the results heading, the related papers and the resources name
ResultsTopic == research.topic

\* handleSearch, from the await on, without the includes() test
ResearchOnResponseAlwaysAdding(req, ok, data) ==
    /\ research' =
         IF ok /\ data # Null
         THEN [research EXCEPT
                 !.suggestions = data.suggestions,
                 !.searchHistory = <<req.ctx.topic>> \o Take(@, 9),
                 !.loading = FALSE]
         ELSE [research EXCEPT !.loading = FALSE]
    /\ UNCHANGED <<library, upload, ask, tutor, analyticsPage, dashboard, now>>

\* handleSearch, from the await on
ResearchOnResponse(req, ok, data) ==
    /\ research' =
         IF ok /\ data # Null
         THEN [research EXCEPT
                 !.suggestions = data.suggestions,
                 !.searchHistory =
                     IF ~req.ctx.included
                     THEN <<req.ctx.topic>> \o Take(@, 9)
                     ELSE @,
                 !.loading = FALSE]
         ELSE [research EXCEPT !.loading = FALSE]
    /\ UNCHANGED <<library, upload, ask, tutor, analyticsPage, dashboard, now>>

(***************************************************************************)
(* AnalyticsPage and Dashboard                                             *)
(***************************************************************************)
TimeRanges == {"7days", "30days", "90days"}

\* a time-range button: setTimeRange(range); the effect runs when timeRange changed
SetTimeRange(range) ==
    /\ view = "analytics"
    /\ RangeButtonsRendered
    /\ IF range = analyticsPage.timeRange
       THEN /\ last' = Step("setTimeRange", "analytics", NoReq, NoToast)
            /\ UNCHANGED <<analyticsPage, inflight, orphans>>
       ELSE /\ Len(inflight) + orphans < MaxInFlight
            /\ analyticsPage' = [analyticsPage EXCEPT !.timeRange = range]
            /\ UNCHANGED orphans
            /\ inflight' = Append(inflight,
                    GetAnalytics("cli_user", range, "analytics", "range-button"))
            /\ last' = Step("issued", "analytics",
                    GetAnalytics("cli_user", range, "analytics", "range-button"), NoToast)
    /\ UNCHANGED <<view, library, upload, ask, tutor, research, dashboard, now>>

\* fetchAnalytics, from the await on, dropping the response of a request made
\* for a time range that is no longer the selected one
AnalyticsOnResponseLatestOnly(req, ok, data) ==
    /\ analyticsPage' = IF ok /\ req.body.time_range = analyticsPage.timeRange
                        THEN [analyticsPage EXCEPT !.analytics = data, !.loading = FALSE]
                        ELSE [analyticsPage EXCEPT !.loading = FALSE]
    /\ UNCHANGED <<library, upload, ask, tutor, research, dashboard, now>>

\* fetchAnalytics, from the await on, dropping the snapshot when the call failed
AnalyticsOnResponseClearing(req, ok, data) ==
    /\ analyticsPage' = IF ok
                        THEN [analyticsPage EXCEPT !.analytics = data, !.loading = FALSE]
                        ELSE [analyticsPage EXCEPT !.analytics = Null, !.loading = FALSE]
    /\ UNCHANGED <<library, upload, ask, tutor, research, dashboard, now>>

\* AnalyticsPage's fetchAnalytics, from the await on
AnalyticsOnResponse(req, ok, data) ==
    /\ analyticsPage' = IF ok
                        THEN [analyticsPage EXCEPT !.analytics = data, !.loading = FALSE]
                        ELSE [analyticsPage EXCEPT !.loading = FALSE]
    /\ UNCHANGED <<library, upload, ask, tutor, research, dashboard, now>>

\* Dashboard's fetchAnalytics, from the await on
DashboardOnResponse(req, ok, data) ==
    /\ dashboard' = IF ok
                    THEN [dashboard EXCEPT !.analytics = data, !.loading = FALSE]
                    ELSE [dashboard EXCEPT !.loading = FALSE]
    /\ UNCHANGED <<library, upload, ask, tutor, research, analyticsPage, now>>

(***************************************************************************)
(* LibraryPage                                                             *)
(***************************************************************************)
\* the search box's onChange
SetSearchTerm(text) ==
    /\ view = "library"
    /\ LibraryRendered
    /\ library' = [library EXCEPT !.searchTerm = text]
    /\ last' = Step("setSearchTerm", "library", NoReq, NoToast)
    /\ UNCHANGED <<view, upload, ask, tutor, research, analyticsPage, dashboard,
                   inflight, orphans, now>>

\* an item of the subject menu: "all" or one of subjects
SetFilterBy(subject) ==
    /\ view = "library"
    /\ LibraryRendered
    /\ subject \in {ALL} \cup subjects
    /\ library' = [library EXCEPT !.filterBy = subject]
    /\ last' = Step("setFilterBy", "library", NoReq, NoToast)
    /\ UNCHANGED <<view, upload, ask, tutor, research, analyticsPage, dashboard,
                   inflight, orphans, now>>

\* the keys of the sort menu
SortKeys == {"upload_date", "filename", "complexity"}

\* an item of the sort menu that sorts the held list itself
SetSortByInPlace(key) ==
    /\ view = "library"
    /\ LibraryRendered
    /\ library' = [library EXCEPT !.sortBy = key, !.documents = SortDocs(@, key)]
    /\ last' = Step("setSortBy", "library", NoReq, NoToast)
    /\ UNCHANGED <<view, upload, ask, tutor, research, analyticsPage, dashboard,
                   inflight, orphans, now>>

\* an item of the sort menu
SetSortBy(key) ==
    /\ view = "library"
    /\ LibraryRendered
    /\ library' = [library EXCEPT !.sortBy = key]
    /\ last' = Step("setSortBy", "library", NoReq, NoToast)
    /\ UNCHANGED <<view, upload, ask, tutor, research, analyticsPage, dashboard,
                   inflight, orphans, now>>

\* fetchDocuments: what the mount effect leaves
LibraryFetched(docs) == [LibraryInit EXCEPT !.documents = docs, !.loading = FALSE]


(***************************************************************************)
(* Navigation: a Link of the navigation bar unmounts the page and mounts   *)
(* another one; the requests of the unmounted page stay in flight.         *)
(***************************************************************************)
\* the request a page's mount effect makes
MountRequests(page) ==
    CASE page = "analytics" ->
           <<GetAnalytics("cli_user", AnalyticsInit.timeRange, "analytics", "mount")>>
      [] page = "dashboard" -> <<GetAnalytics("cli_user", "30days", "dashboard", "mount")>>
      [] OTHER -> <<>>

HistOnMount(page) ==
    IF MountRequests(page) = <<>> THEN HistInit
    ELSE [op |-> MountRequests(page)[1].op, streak |-> 0, before |-> NoControls]


Navigate(page) ==
    /\ page \in Views \ {view}
    /\ orphans + Len(inflight) + Len(MountRequests(page)) <= MaxInFlight
    /\ view' = page
    /\ library' = IF page = "library" THEN LibraryFetched(sampleDocs) ELSE LibraryInit
    /\ upload' = UploadInit
    /\ ask' = AskInit
    /\ tutor' = TutorInit
    /\ research' = ResearchInit
    /\ analyticsPage' = AnalyticsInit
    /\ dashboard' = DashboardInit
    /\ inflight' = MountRequests(page)
    /\ orphans' = orphans + Len(inflight)
    /\ last' = Step("navigate", page,
                    IF MountRequests(page) = <<>> THEN NoReq ELSE MountRequests(page)[1],
                    NoToast)
    /\ UNCHANGED now

\* the link of a document card that sets the scope of AskPage from its query
AskAboutDocumentScoped(documentId) ==
    /\ view = "library"
    /\ LibraryRendered
    /\ documentId \in {sortedDocuments[i].document_id : i \in 1..Len(sortedDocuments)}
    /\ view' = "ask"
    /\ library' = LibraryInit
    /\ upload' = UploadInit
    /\ ask' = [AskInit EXCEPT !.selectedDocument = documentId]
    /\ tutor' = TutorInit
    /\ research' = ResearchInit
    /\ analyticsPage' = AnalyticsInit
    /\ dashboard' = DashboardInit
    /\ inflight' = <<>>
    /\ orphans' = orphans + Len(inflight)
    /\ last' = Step("navigate", "ask", [op |-> "none", doc |-> documentId], NoToast)
    /\ UNCHANGED now

\* the Ask Questions link of a document card: /ask?doc=<document_id>; AskPage
\* is mounted and does not read the query
AskAboutDocument(documentId) ==
    /\ view = "library"
    /\ LibraryRendered
    /\ documentId \in {sortedDocuments[i].document_id : i \in 1..Len(sortedDocuments)}
    /\ view' = "ask"
    /\ library' = LibraryInit
    /\ upload' = UploadInit
    /\ ask' = AskInit
    /\ tutor' = TutorInit
    /\ research' = ResearchInit
    /\ analyticsPage' = AnalyticsInit
    /\ dashboard' = DashboardInit
    /\ inflight' = <<>>
    /\ orphans' = orphans + Len(inflight)
    /\ last' = Step("navigate", "ask", [op |-> "none", doc |-> documentId], NoToast)
    /\ UNCHANGED now

(***************************************************************************)
(* The backend answers a request: the awaiting handler runs on.            *)
(***************************************************************************)
\* whether the handler's try block runs to its end
Completes(req, ok, data) ==
    /\ ok
    /\ req.op \in {"askQuestion", "chatTutor", "getResearchSuggestions"} => data # Null

\* the toast calls of the handlers after their await
ResponseToast(req, ok, data) ==
    CASE req.op = "uploadPDF" ->
           IF Completes(req, ok, data)
           THEN ToastSuccess("Upload successful! Your document has been processed and is ready for questions.")
           ELSE ToastError("Upload failed. There was an error uploading your document. Please try again.")
      [] req.op = "askQuestion" ->
           IF Completes(req, ok, data) THEN NoToast
           ELSE ToastError("Failed to get answer. Please try again.")
      [] req.op = "submitFeedback" ->
           IF Completes(req, ok, data) THEN ToastSuccess("Thank you for your feedback!")
           ELSE ToastError("Failed to submit feedback.")
      [] req.op = "chatTutor" ->
           IF Completes(req, ok, data) THEN NoToast ELSE ToastError("Something went wrong.")
      [] req.op = "getResearchSuggestions" ->
           IF Completes(req, ok, data) THEN ToastSuccess("Operation completed successfully.")
           ELSE ToastError("Something went wrong.")
      [] req.op = "getAnalytics" ->
           IF req.page = "dashboard" \/ Completes(req, ok, data) THEN NoToast
           ELSE ToastError("Something went wrong.")

\* the state updates of the handlers after their await; those of an unmounted
\* component do nothing
OnResponse(req, ok, data, t) ==
    IF req.op = "submitFeedback"
    THEN UNCHANGED <<library, upload, ask, tutor, research, analyticsPage, dashboard, now>>
    ELSE CASE req.op = "uploadPDF" -> UploadOnResponse(req, ok, data)
           [] req.op = "askQuestion" -> AskOnResponse(req, ok, data, t)
           [] req.op = "chatTutor" -> TutorOnResponse(req, ok, data, t)
           [] req.op = "getResearchSuggestions" -> ResearchOnResponse(req, ok, data)
           [] req.op = "getAnalytics" /\ req.page = "analytics" ->
                AnalyticsOnResponse(req, ok, data)
           [] req.op = "getAnalytics" /\ req.page = "dashboard" ->
                DashboardOnResponse(req, ok, data)

Respond(i, ok, data, t) ==
    /\ i \in 1..Len(inflight)
    /\ inflight' = RemoveAt(inflight, i)
    /\ OnResponse(inflight[i], ok, data, t)
    /\ last' = Step(IF ok THEN "ok" ELSE "failed", inflight[i].page,
                    Answered(inflight[i], data), ResponseToast(inflight[i], ok, data))
    /\ UNCHANGED <<view, orphans>>

\* a 2xx response with body data
RespondOk(i, data, t) ==
    /\ i \in 1..Len(inflight)
    /\ data \in Payloads(inflight[i])
    /\ Respond(i, TRUE, data, t)

\* a failure after which the call is made again by itself
RespondFailRetrying(i) ==
    /\ i \in 1..Len(inflight)
    /\ inflight' = inflight
    /\ OnResponse(inflight[i], FALSE, Null, now)
    /\ last' = Step("failed", inflight[i].page, Answered(inflight[i], Null),
                    ResponseToast(inflight[i], FALSE, Null))
    /\ UNCHANGED <<view, orphans>>

\* a network failure or a non-2xx response
RespondFail(i) == Respond(i, FALSE, Null, now)

\* the notices the handlers raise after their await
ResponseToasts ==
    {ResponseToast([op |-> op, page |-> page], ok, data) :
        op \in {"uploadPDF", "askQuestion", "submitFeedback", "chatTutor",
                "getResearchSuggestions", "getAnalytics"},
        page \in {"analytics", "dashboard"}, ok \in BOOLEAN,
        data \in {[null |-> FALSE], Null}}

\* the backend answers a request of an unmounted page: the awaiting handler
\* runs on, its state updates do nothing, its notice shows
RespondOrphan(notice) ==
    /\ orphans > 0
    /\ notice \in ResponseToasts
    /\ orphans' = orphans - 1
    /\ last' = Step("orphan", view, NoReq, notice)
    /\ UNCHANGED <<view, library, upload, ask, tutor, research, analyticsPage,
                   dashboard, inflight, now>>

(***************************************************************************)
(* The application: opened at "/", used through its controls.              *)
(***************************************************************************)
ClockValues == 0..MaxClock

SearchTerms == {<<>>, <<"b">>, <<"L", "l">>, <<"A">>}

Init ==
    /\ view = "dashboard"
    /\ library = LibraryInit
    /\ upload = UploadInit
    /\ ask = AskInit
    /\ tutor = TutorInit
    /\ research = ResearchInit
    /\ analyticsPage = AnalyticsInit
    /\ dashboard = DashboardInit
    /\ inflight = MountRequests("dashboard")
    /\ orphans = 0
    /\ now = 0
    /\ last = Step("init", "dashboard", MountRequests("dashboard")[1], NoToast)
    /\ hist = HistInit

\* the bookkeeping of failed calls, from the step being taken
HistStep ==
    CASE last'.ev = "issued" -> HistOnIssue(last'.req)
      [] last'.ev = "navigate" -> HistOnMount(last'.page)
      [] last'.ev \in {"ok", "failed"} -> HistOnResponse(last'.req, last'.ev = "ok")
      [] OTHER -> IF hist.streak >= 2 THEN HistInit ELSE hist

Track == hist' = HistStep

Next ==
    \/ (\E page \in Views : Navigate(page)) /\ Track
    \/ (\E file \in FilePool \cup {NoFile} : HandleFileChange(file)) /\ Track
    \/ (\E text \in TypedTexts : SetSubject(text)) /\ Track
    \/ ClickUpload /\ Track
    \/ (\E text \in TypedTexts : SetInput(text)) /\ Track
    \/ (\E question \in Pressed(quickQuestions) : QuickQuestion(question)) /\ Track
    \/ SelectAllDocuments /\ Track
    \/ (\E t \in ClockValues : AskFormSubmit(t)) /\ Track
    \/ (\E id \in FeedbackIds, rating \in {5, 2} : HandleFeedback(id, rating)) /\ Track
    \/ CopyToClipboard /\ Track
    \/ (\E text \in TypedTexts : SetMessage(text)) /\ Track
    \/ (\E t \in ClockValues : TutorFormSubmit(t)) /\ Track
    \/ (\E text \in Pressed(quickPrompts), t \in ClockValues :
           TutorQuickPrompt(text, t)) /\ Track
    \/ (\E text \in TypedTexts : TypeTopic(text)) /\ Track
    \/ (\E text \in TopicButtons : PickTopic(text)) /\ Track
    \/ ResearchFormSubmit /\ Track
    \/ (\E range \in TimeRanges : SetTimeRange(range)) /\ Track
    \/ (\E text \in SearchTerms : SetSearchTerm(text)) /\ Track
    \/ (\E subject \in {ALL} \cup subjects : SetFilterBy(subject)) /\ Track
    \/ (\E key \in SortKeys : SetSortBy(key)) /\ Track
    \/ (\E i \in 1..Len(sortedDocuments) :
           AskAboutDocument(sortedDocuments[i].document_id)) /\ Track
    \/ (\E i \in 1..Len(inflight), t \in ClockValues :
           \E data \in Payloads(inflight[i]) : RespondOk(i, data, t)) /\ Track
    \/ (\E i \in 1..Len(inflight) : RespondFail(i)) /\ Track
    \/ (\E notice \in ResponseToasts : RespondOrphan(notice)) /\ Track

Spec == Init /\ [][Next]_vars

(***************************************************************************)
(* The application over a network that answers: a request of a page's      *)
(* workflow that stays outstanding is answered at some time, by a response *)
(* or by a failure.                                                        *)
(***************************************************************************)
Delivery ==
    \E i \in 1..Len(inflight) :
        /\ inflight[i].op # "submitFeedback"
        /\ \/ \E t \in ClockValues, data \in Payloads(inflight[i]) : RespondOk(i, data, t)
           \/ RespondFail(i)

LiveSpec == Init /\ [][Next]_vars /\ WF_vars(Delivery /\ Track)

(***************************************************************************)
(* The handlers called directly, whatever the state of their controls.     *)
(***************************************************************************)
\* the texts of TypedTexts that trim to nothing
BlankTexts == {text \in TypedTexts : ~Truthy(Trim(text))}

NextHandlers ==
    \/ Next
    \/ HandleUpload /\ Track
    \/ (\E t \in ClockValues : AskHandleSubmit(t)) /\ Track
    \/ (\E text \in BlankTexts, t \in ClockValues : HandleSend(text, "submit", t)) /\ Track
    \/ HandleSearch /\ Track

HandlerSpec == Init /\ [][NextHandlers]_vars

(***************************************************************************)
(* The Research page after earlier searches: the topics of the trending    *)
(* badges and of the research areas have been searched, none, nine or ten  *)
(* of them.                                                                *)
(***************************************************************************)
\* ten topics that have a button, the first trending badge not among them
SearchedTopics == SubSeq(trendingTopics, 2, 5) \o researchAreas

ResearchNext ==
    \/ (\E text \in TypedTexts : TypeTopic(text)) /\ Track
    \/ (\E text \in TopicButtons : PickTopic(text)) /\ Track
    \/ ResearchFormSubmit /\ Track
    \/ (\E i \in 1..Len(inflight), t \in ClockValues :
           \E data \in Payloads(inflight[i]) : RespondOk(i, data, t)) /\ Track
    \/ (\E i \in 1..Len(inflight) : RespondFail(i)) /\ Track

ResearchSpecInit ==
    /\ view = "research"
    /\ library = LibraryInit
    /\ upload = UploadInit
    /\ ask = AskInit
    /\ tutor = TutorInit
    /\ \E n \in {0, 9, 10} :
           research = [ResearchInit EXCEPT !.searchHistory = Take(SearchedTopics, n)]
    /\ analyticsPage = AnalyticsInit
    /\ dashboard = DashboardInit
    /\ inflight = <<>>
    /\ orphans = 0
    /\ now = 0
    /\ last = Step("init", "research", NoReq, NoToast)
    /\ hist = HistInit

ResearchSpec == ResearchSpecInit /\ [][ResearchNext]_vars

(***************************************************************************)
(* The library's derived lists over any fetched document list.             *)
(***************************************************************************)
\* what a fetched document can be
DocPool ==
    {[document_id |-> "d", filename |-> f, subject |-> sj,
      upload_date |-> p.date, complexity_score |-> p.score] :
        f \in {<<"a">>, <<"A">>, <<"B">>},
        sj \in {ALL, <<"x", "B">>},
        p \in {[date |-> [local |-> 60, off |-> 0], score |-> 20],
               [date |-> [local |-> 120, off |-> 60], score |-> 10],
               [date |-> [local |-> 120, off |-> 0], score |-> 20]}}

DocLists == UNION {[1..n -> DocPool] : n \in 0..MaxDocs}

LibInit ==
    /\ view = "library"
    /\ \E docs \in DocLists : library = LibraryFetched(docs)
    /\ upload = UploadInit
    /\ ask = AskInit
    /\ tutor = TutorInit
    /\ research = ResearchInit
    /\ analyticsPage = AnalyticsInit
    /\ dashboard = DashboardInit
    /\ inflight = <<>>
    /\ orphans = 0
    /\ now = 0
    /\ last = Step("init", "library", NoReq, NoToast)
    /\ hist = HistInit

LibNext ==
    \/ (\E text \in SearchTerms : SetSearchTerm(text)) /\ Track
    \/ (\E subject \in {ALL} \cup subjects : SetFilterBy(subject)) /\ Track
    \/ (\E key \in SortKeys : SetSortBy(key)) /\ Track

LibSpec == LibInit /\ [][LibNext]_vars

(***************************************************************************)
(* Properties of the library's derived lists, over LibSpec.                *)
(***************************************************************************)
\* two characters that are equal, or the two cases of one letter
SameUpToCase(x, y) ==
    \/ x = y
    \/ \E i \in 1..Len(LowerLetters) : {x, y} = {LowerLetters[i], UpperLetters[i]}

\* text contains s at some offset, case of letters ignored
ContainsIgnoringCase(text, s) ==
    \E k \in 0..(Len(text) - Len(s)) :
        \A j \in 1..Len(s) : SameUpToCase(text[k + j], s[j])

\* the filter predicate as the specification words it
FilterPredicate(doc, s, f) ==
    /\ ContainsIgnoringCase(doc.filename, s) \/ ContainsIgnoringCase(doc.subject, s)
    /\ f = ALL \/ doc.subject = f

\* how many times x occurs in seq
Count(seq, x) == Cardinality({i \in 1..Len(seq) : seq[i] = x})

\* C1: a document of the list is in the filtered output if and only if its
\* filename or its subject contains the search text, compared without case,
\* and the subject filter is the sentinel "all" or equals its subject.
C1_FilterIffPredicate ==
    view = "library" =>
        \A doc \in Elements(library.documents) :
            doc \in Elements(filteredDocuments)
                <=> FilterPredicate(doc, library.searchTerm, library.filterBy)

\* an upper-case search text has matched a lower-case filename under a subject
\* filter, and the other document of the list is filtered out
C1_Witness ==
    /\ view = "library"
    /\ library.searchTerm = <<"A">>
    /\ library.filterBy = <<"x", "B">>
    /\ Len(library.documents) = 2
    /\ Len(filteredDocuments) = 1
    /\ filteredDocuments[1].filename = <<"a">>

\* C2: the sorted output is non-increasing by parsed upload timestamp under
\* the key "upload_date", ascending by locale string comparison of filenames
\* under "filename", and non-increasing by complexity score under "complexity".
C2_SortOrder ==
    view = "library" =>
        \A i \in 1..(Len(sortedDocuments) - 1) :
            CASE library.sortBy = "upload_date" ->
                   DateGetTime(sortedDocuments[i].upload_date)
                       >= DateGetTime(sortedDocuments[i + 1].upload_date)
              [] library.sortBy = "filename" ->
                   LocaleCompare(sortedDocuments[i].filename,
                                 sortedDocuments[i + 1].filename) <= 0
              [] library.sortBy = "complexity" ->
                   sortedDocuments[i].complexity_score
                       >= sortedDocuments[i + 1].complexity_score

\* the sort by upload date has moved a later instant to the front, although
\* the two date strings name the same local time
C2_Witness ==
    /\ view = "library"
    /\ library.sortBy = "upload_date"
    /\ Len(filteredDocuments) = 2
    /\ filteredDocuments[1].upload_date = [local |-> 120, off |-> 60]
    /\ filteredDocuments[2].upload_date = [local |-> 120, off |-> 0]
    /\ sortedDocuments[1] = filteredDocuments[2]
    /\ sortedDocuments[2] = filteredDocuments[1]

\* C3: under every sort key, an unrecognised one included, the output holds
\* exactly the documents of the list that satisfy the filter predicate, each
\* as many times as the list holds it.
C3_Conservation ==
    view = "library" =>
        \A key \in SortKeys \cup {"relevance"} :
            \A doc \in DocPool :
                Count(SortDocs(filteredDocuments, key), doc)
                    = IF FilterPredicate(doc, library.searchTerm, library.filterBy)
                      THEN Count(library.documents, doc)
                      ELSE 0

\* a list that holds one document twice, both copies passing a search
C3_Witness ==
    /\ view = "library"
    /\ Len(library.documents) = 2
    /\ library.documents[1] = library.documents[2]
    /\ library.searchTerm # <<>>
    /\ library.sortBy = "complexity"
    /\ Len(sortedDocuments) = 2

(***************************************************************************)
(* Properties of the pages.                                                *)
(***************************************************************************)
\* a text that is empty or holds white space only
Blank(text) == \A i \in 1..Len(text) : text[i] \in {" ", "\t", "\n"}

PDF == "application/pdf"

ValidationNotice == ToastError("Please select a file and enter a subject.")

\* C4: handleUpload, invoked with no selected file or with a subject that is
\* empty or white space only, raises the validation notice, issues no request
\* and leaves file, subject, uploading and uploadResult unchanged.
C4_UploadValidation ==
    [][(/\ view = "upload"
        /\ last'.page = "upload"
        /\ last'.ev \in {"rejected", "issued"}
        /\ upload.file = NoFile \/ Blank(upload.subject))
       => (/\ last'.ev = "rejected"
           /\ last'.toast = ValidationNotice
           /\ inflight' = inflight
           /\ orphans' = orphans
           /\ upload' = upload)]_vars

\* handleUpload has returned early on a subject of white space, a file selected
C4_Witness ==
    /\ view = "upload"
    /\ last.ev = "rejected"
    /\ last.toast = ValidationNotice
    /\ upload.file # NoFile
    /\ upload.subject = <<" ">>
    /\ inflight = <<>>

\* C5: no upload request is issued whose file has size 0.
C5_NoEmptyFileUploaded ==
    \A i \in 1..Len(inflight) :
        inflight[i].op = "uploadPDF" => inflight[i].body.file.size > 0

\* C6: the selected file is absent or a PDF; selecting a file of another type
\* raises an error notice and leaves the selected file as it was; every upload
\* request carries a PDF.
C6_OnlyPDF ==
    [][/\ upload'.file = NoFile \/ upload'.file.type = PDF
       /\ \A i \in 1..Len(inflight') :
              inflight'[i].op = "uploadPDF" => inflight'[i].body.file.type = PDF
       /\ (/\ last'.ev = "fileChange"
           /\ last'.req.file # NoFile
           /\ last'.req.file.type # PDF)
          => (upload'.file = upload.file /\ last'.toast.kind = "error")]_vars

\* a text file has been picked while a PDF was selected: the PDF is still the
\* selected file, and an error notice shows
C6_Witness ==
    /\ view = "upload"
    /\ last.ev = "fileChange"
    /\ last.req.file # NoFile
    /\ last.req.file.type = "text/plain"
    /\ last.toast.kind = "error"
    /\ upload.file # NoFile
    /\ upload.file.type = PDF

\* the text a submit of the Ask, Tutor or Research page was made with
SubmittedText(step) ==
    CASE step.ev = "rejected" -> step.req.text
      [] step.req.op = "getResearchSuggestions" -> step.req.body.topic
      [] OTHER -> step.req.body.question

\* C7: in the Ask, Tutor and Research pages a submit whose text is empty or
\* white space only issues no request and changes nothing of the page: no
\* transcript entry, no loading flag, no history entry.
C7_EmptyTextNeverSent ==
    [][(/\ last'.page \in {"ask", "tutor", "research"}
        /\ last'.ev \in {"rejected", "issued"}
        /\ last'.req.op \in {"none", "askQuestion", "chatTutor", "getResearchSuggestions"}
        /\ Blank(SubmittedText(last')))
       => (/\ last'.ev = "rejected"
           /\ inflight' = inflight
           /\ orphans' = orphans
           /\ ask' = ask
           /\ tutor' = tutor
           /\ research' = research)]_vars

\* AskPage's handleSubmit has returned early on an input of white space
C7_Witness ==
    /\ view = "ask"
    /\ last.ev = "rejected"
    /\ last.req.text = <<" ">>
    /\ ask.input = <<" ">>
    /\ ~ask.loading
    /\ ask.messages = <<>>
    /\ inflight = <<>>

\* C8: whenever a request of a page's workflow is outstanding, issued on mount
\* or by a control, the page's loading flag is true and the control that made
\* the request is disabled.
C8_LoadingWhileOutstanding ==
    \A i \in 1..Len(inflight) :
        inflight[i].op # "submitFeedback" =>
            (Loading /\ inflight[i].via \notin Controls.triggers)

\* the step before was the second of two consecutive failed calls of one
\* operation, or the first
AfterFailedCalls(n) ==
    /\ last.ev = "failed"
    /\ hist.op = last.req.op
    /\ hist.streak = n

\* C9 as stated: after two consecutive failed calls every control is enabled
\* or disabled as it was before the first call, and the loading flag is false.
C9_ControlsIdentical ==
    AfterFailedCalls(2) => (Controls = hist.before /\ ~Loading)

\* the fields a page's submit or upload button reads hold nothing to send
FieldsEmpty ==
    CASE view = "upload" -> upload.file = NoFile \/ upload.subject = <<>>
      [] view = "ask" -> Blank(ask.input)
      [] view = "tutor" -> Blank(tutor.message)
      [] view = "research" -> Blank(research.topic)
      [] OTHER -> FALSE

\* C9, amended: after one failed call, and after two consecutive ones, the
\* loading flag is false, the inputs are enabled as before the first call, and
\* a control enabled before the first call and disabled now is a submit or
\* upload button whose fields hold nothing to send.
C9_FailureLocksNothing ==
    (AfterFailedCalls(1) \/ AfterFailedCalls(2)) =>
        /\ ~Loading
        /\ Controls.inputs = hist.before.inputs
        /\ \A control \in hist.before.triggers \ Controls.triggers :
               control \in {"submit", "upload-button"} /\ FieldsEmpty

\* the second of two consecutive ask calls has failed: the input is enabled
\* again, the submit button, enabled before the first call, is not
C9_Witness ==
    /\ AfterFailedCalls(2)
    /\ view = "ask"
    /\ last.req.op = "askQuestion"
    /\ ~ask.loading
    /\ "submit" \in hist.before.triggers \ Controls.triggers
    /\ Controls.inputs = {"input"}

\* C10: after a failed response the page has a control that makes the failed
\* call: enabled, or enabled once its fields are filled in.
C10_RetryAvailable ==
    last.ev = "failed" =>
        \E control \in Retriggers(last.req) :
            \/ control \in Controls.triggers
            \/ control \in {"submit", "upload-button"} /\ Controls.inputs # {}

\* C11: every failed call of the gateway made by a page raises a notice for
\* the user.
C11_FailureNotified ==
    last.ev = "failed" => last.toast.kind = "error"

\* what a page holds of a response: uploadResult, suggestions, analytics
HeldResult ==
    CASE view = "upload" -> upload.uploadResult
      [] view = "research" -> [suggestions |-> research.suggestions]
      [] view = "analytics" -> analyticsPage.analytics
      [] view = "dashboard" -> dashboard.analytics

\* what a response body gives a page to hold
PayloadResult(req, data) ==
    IF req.op = "getResearchSuggestions" /\ data # Null
    THEN [suggestions |-> data.suggestions]
    ELSE data

\* C12: right after a successful response in the Upload, Research, Analytics
\* or Dashboard page, the result the page holds is the payload of that response
\* and the loading flag is false.
C12_SuccessReplaces ==
    (/\ last.ev = "ok"
     /\ last.req.op \in {"uploadPDF", "getResearchSuggestions", "getAnalytics"})
    => (/\ HeldResult = PayloadResult(last.req, last.req.data)
        /\ ~Loading)

\* the operation a page's workflow calls
MainOp(page) ==
    CASE page = "ask" -> "askQuestion"
      [] page = "tutor" -> "chatTutor"
      [] page = "upload" -> "uploadPDF"
      [] page = "research" -> "getResearchSuggestions"
      [] OTHER -> "none"

\* the requests of the mounted page's workflow that are in flight
MainRequests == {i \in 1..Len(inflight) : inflight[i].op = MainOp(view)}

C14_StaleResponseApplied ==
    [][(/\ last'.ev = "ok"
        /\ last'.page = "analytics"
        /\ last'.req.data # Null
        /\ last'.req.body.time_range # analyticsPage.timeRange)
       => (/\ analyticsPage'.analytics = last'.req.data
           /\ analyticsPage'.analytics.time_range # analyticsPage'.timeRange)]_vars

\* two changes of the time range were made in a row and the response of the
\* first came last: nothing is outstanding, and the snapshot held is not one
\* for the selected range
C14_Witness ==
    /\ view = "analytics"
    /\ inflight = <<>>
    /\ last.ev = "ok"
    /\ last.req.via = "range-button"
    /\ last.req.body.time_range # analyticsPage.timeRange
    /\ analyticsPage.analytics # Null
    /\ analyticsPage.analytics.time_range # analyticsPage.timeRange
    /\ ~analyticsPage.loading

\* C15: sending feedback, and its response whether it succeeds or fails,
\* leaves the Ask page's transcript, input, loading flag and selected document
\* as they were; a failure raises a notice and nothing else.
C15_FeedbackLeavesAnswer ==
    [][last'.req.op = "submitFeedback"
       => (/\ ask' = ask
           /\ last'.ev = "failed" => last'.toast = ToastError("Failed to submit feedback."))]_vars

\* feedback on an answer has failed: the answer is in the transcript with its
\* interaction id, and the failure notice shows
C15_Witness ==
    /\ view = "ask"
    /\ last.ev = "failed"
    /\ last.req.op = "submitFeedback"
    /\ last.toast.kind = "error"
    /\ last.req.body.interaction_id \in FeedbackIds
    /\ ~ask.loading

\* C16: after a successful ask response the sources shown under the answer
\* are as many as the response has, in the response's order, and each shows
\* the document, chunk id, relevance score and preview of the response's entry
\* as they are.
C16_SourcesPreserved ==
    (/\ last.ev = "ok"
     /\ last.req.op = "askQuestion"
     /\ last.req.data # Null
     /\ view = "ask")
    => LET shown == RenderedSources(ask.messages[Len(ask.messages)])
           sent == last.req.data.sources
       IN  /\ Len(shown) = Len(sent)
           /\ \A i \in 1..Len(shown) :
                  /\ shown[i].document = sent[i].document
                  /\ shown[i].preview = sent[i].preview
                  /\ shown[i].badge * 10 = sent[i].relevance_score
                  /\ "chunk_id" \in DOMAIN shown[i]

\* C17: a successful response never takes the failure path, whatever its
\* body, a null body included: no error notice is raised for it.
C17_EmptyPayloadNotAnError ==
    last.ev = "ok" => last.toast.kind # "error"

\* the requests that are not yet answered, those of unmounted pages included
Outstanding == Len(inflight) + orphans

\* C18: a step adds at most one request, and adds one only when a control
\* that calls the gateway was used or a page was mounted; the response to a
\* request, a failed one included, adds none.
C18_OneRequestPerTrigger ==
    [][/\ Outstanding' <= Outstanding + 1
       /\ Outstanding' > Outstanding => last'.ev \in {"issued", "navigate"}
       /\ last'.ev = "issued" =>
              inflight' = Append(inflight, last'.req) /\ orphans' = orphans
       /\ last'.ev = "navigate" =>
              Outstanding' = Outstanding + Len(MountRequests(view'))
       /\ last'.ev \in {"ok", "failed", "orphan"} => Outstanding' = Outstanding - 1]_vars

\* a call has failed and nothing is outstanding: no call was made in its place
C18_Witness ==
    /\ last.ev = "failed"
    /\ last.req.op = "askQuestion"
    /\ Outstanding = 0
    /\ ~Loading

\* C19: a change of the search text, the subject filter or the sort key issues
\* no request and leaves the held document list, contents and order, as it was
\* fetched.
C19_LibraryChangesLocal ==
    [][last'.ev \in {"setSearchTerm", "setFilterBy", "setSortBy"}
       => (/\ inflight' = inflight
           /\ orphans' = orphans
           /\ library'.documents = library.documents
           /\ library'.documents = sampleDocs)]_vars

\* the sort key was changed to the filename: the derived list is in another
\* order than the held list, which is as fetched
C19_Witness ==
    /\ view = "library"
    /\ last.ev = "setSortBy"
    /\ library.sortBy = "filename"
    /\ library.documents = sampleDocs
    /\ Len(sortedDocuments) = Len(sampleDocs)
    /\ sortedDocuments # library.documents

\* the controls of a page that has just been mounted
FreshControls(page) ==
    CASE page = "upload" -> [inputs |-> {"file", "subject"}, triggers |-> {}]
      [] page = "ask" -> [inputs |-> {"input"}, triggers |-> {}]
      [] page = "tutor" -> [inputs |-> {"message"}, triggers |-> {"quick-prompt"}]
      [] page = "research" -> [inputs |-> {"topic"}, triggers |-> {}]
      [] page = "library" -> [inputs |-> {"search"}, triggers |-> {}]
      [] OTHER -> [inputs |-> {}, triggers |-> {}]

\* C20: the response to a page's outstanding request, success or failure,
\* sets the page's loading flag to false; over a network that answers, a page
\* that is loading stops loading at some time; and a page that is loading
\* disables no control of another page: the page mounted in its place has the
\* controls of a fresh page.
C20_LoadingEnds ==
    /\ [][/\ (last'.ev \in {"ok", "failed"} /\ last'.req.op # "submitFeedback")
             => ~Loading'
          /\ last'.ev = "navigate" => Controls' = FreshControls(view')]_vars
    /\ Loading ~> ~Loading

\* a research call has failed: the page is not loading and its input is
\* enabled again
C20_Witness ==
    /\ view = "research"
    /\ last.ev = "failed"
    /\ last.req.op = "getResearchSuggestions"
    /\ ~research.loading
    /\ "topic" \in Controls.inputs
    /\ inflight = <<>>

\* a is the beginning of b
IsPrefix(a, b) == Len(a) <= Len(b) /\ SubSeq(b, 1, Len(a)) = a

\* C21: every step of the Ask and Tutor pages (submit, response, failure,
\* feedback, quick question) leaves the messages of the transcript as they
\* are, in their order: the transcript before is a prefix of the one after.
C21_TranscriptAppendOnly ==
    [][last'.ev # "navigate"
       => (/\ IsPrefix(ask.messages, ask'.messages)
           /\ IsPrefix(tutor.messages, tutor'.messages))]_vars

\* an answer has been appended to a transcript of two questions, the first of
\* which had failed
C21_Witness ==
    /\ view = "ask"
    /\ last.ev = "ok"
    /\ last.req.op = "askQuestion"
    /\ Len(ask.messages) = 3
    /\ ask.messages[3].type = "assistant"

\* every reply of a transcript comes right after a user message
Paired(messages, reply) ==
    \A i \in 1..Len(messages) :
        messages[i].type = reply => (i > 1 /\ messages[i - 1].type = "user")

\* while a question is awaited its user message is the last of the transcript
AwaitedIsLast(messages) ==
    \A i \in MainRequests :
        /\ messages # <<>>
        /\ messages[Len(messages)].type = "user"
        /\ messages[Len(messages)].content = inflight[i].body.question

\* C22: in the Ask and Tutor transcripts every reply comes right after a user
\* message, there are no more replies than user messages, and no user message
\* comes between a question and its reply.
C22_TranscriptPairing ==
    /\ Paired(ask.messages, "assistant")
    /\ Paired(tutor.messages, "tutor")
    /\ Cardinality({i \in 1..Len(ask.messages) : ask.messages[i].type = "assistant"})
           <= Cardinality({i \in 1..Len(ask.messages) : ask.messages[i].type = "user"})
    /\ Cardinality({i \in 1..Len(tutor.messages) : tutor.messages[i].type = "tutor"})
           <= Cardinality({i \in 1..Len(tutor.messages) : tutor.messages[i].type = "user"})
    /\ view = "ask" => AwaitedIsLast(ask.messages)
    /\ view = "tutor" => AwaitedIsLast(tutor.messages)

\* the tutor has replied to the second of two messages, the first of which
\* got no reply
C22_Witness ==
    /\ view = "tutor"
    /\ Len(tutor.messages) = 3
    /\ tutor.messages[1].type = "user"
    /\ tutor.messages[2].type = "user"
    /\ tutor.messages[3].type = "tutor"
    /\ ~tutor.loading

\* the ids of a transcript are pairwise distinct
DistinctIds(messages) ==
    \A i, j \in 1..Len(messages) : i # j => messages[i].id # messages[j].id

\* C23: the ids of the messages of an Ask transcript, and of a Tutor
\* transcript, are pairwise distinct, whatever the clock read at the submits
\* and at the responses.
C23_MessageIdsUnique ==
    DistinctIds(ask.messages) /\ DistinctIds(tutor.messages)

\* C24: a failed response leaves what the page holds as it was: uploadResult
\* in Upload, the suggestions and the search history in Research, the
\* analytics snapshot in Analytics and Dashboard.
C24_HeldResultKeptOnFailure ==
    [][last'.ev = "failed"
       => (/\ upload'.uploadResult = upload.uploadResult
           /\ research'.suggestions = research.suggestions
           /\ research'.searchHistory = research.searchHistory
           /\ analyticsPage'.analytics = analyticsPage.analytics
           /\ dashboard'.analytics = dashboard.analytics)]_vars

\* the fetch for a newly selected range has failed: the snapshot held is the
\* one of the range selected before
C24_Witness ==
    /\ view = "analytics"
    /\ last.ev = "failed"
    /\ last.req.via = "range-button"
    /\ last.req.body.time_range = analyticsPage.timeRange
    /\ analyticsPage.analytics # Null
    /\ analyticsPage.analytics.time_range = "30days"
    /\ analyticsPage.timeRange # "30days"
    /\ inflight = <<>>

\* a failed ask or tutor call leaves the transcript as the submit left it:
\* its last message is the user's, with the text that was sent
QuestionStays(before, after, question) ==
    /\ after = before
    /\ after # <<>>
    /\ after[Len(after)].type = "user"
    /\ after[Len(after)].content = question

\* C25 as stated: after a failed ask or tutor call the transcript has grown by
\* the user's message and nothing else, and the input field is empty.
C25_FailureLeavesEmptyInput ==
    [][(last'.ev = "failed" /\ last'.req.op \in {"askQuestion", "chatTutor"})
       => (/\ QuestionStays(ask.messages, ask'.messages, last'.req.body.question)
              \/ QuestionStays(tutor.messages, tutor'.messages, last'.req.body.question)
           /\ ask'.input = <<>>
           /\ tutor'.message = <<>>)]_vars

\* C25, amended: after a failed ask or tutor call the transcript has grown by
\* the user's message and nothing else, and the failure leaves the input field
\* as it is, the sent text not put back: the Tutor field is empty, the Ask
\* field is empty or holds a Quick Question pressed during the wait.
C25_FailureRestoresNothing ==
    [][(last'.ev = "failed" /\ last'.req.op \in {"askQuestion", "chatTutor"})
       => (/\ QuestionStays(ask.messages, ask'.messages, last'.req.body.question)
              \/ QuestionStays(tutor.messages, tutor'.messages, last'.req.body.question)
           /\ ask'.input = ask.input
           /\ ask'.input \in {<<>>} \cup Elements(quickQuestions)
           /\ tutor'.message = <<>>)]_vars

\* an ask call has failed after a Quick Question was pressed during the wait:
\* the question sent is the one message of the transcript, the field holds
\* the Quick Question
C25_Witness ==
    /\ view = "ask"
    /\ last.ev = "failed"
    /\ last.req.op = "askQuestion"
    /\ Len(ask.messages) = 1
    /\ ask.messages[1].content = last.req.body.question
    /\ ask.input \in Elements(quickQuestions)
    /\ ask.input # last.req.body.question

\* C26: the document scope of the Ask page is "all" in every state, so every
\* ask request carries document_id "all" and user_id "cli_user", also when the
\* page was entered from the link of a document of the library.
C26_ScopeIsAll ==
    /\ ask.selectedDocument = "all"
    /\ \A i \in 1..Len(inflight) :
           inflight[i].op = "askQuestion" =>
               (inflight[i].body.document_id = "all" /\ inflight[i].body.user_id = "cli_user")

\* the Ask page has been entered from the link of the document doc_002
C26_Witness ==
    /\ view = "ask"
    /\ last.ev = "navigate"
    /\ last.req = [op |-> "none", doc |-> "doc_002"]
    /\ ask.selectedDocument = "all"

\* no topic is twice in the history
NoDuplicate(history) ==
    \A i, j \in 1..Len(history) : i # j => history[i] # history[j]

\* the step is the successful response, with a body, to a search for a topic
SearchSucceeds(step) ==
    /\ step.ev = "ok"
    /\ step.req.op = "getResearchSuggestions"
    /\ step.req.data # Null

\* C27: the search history holds no topic twice and at most 10 topics; only a
\* successful search changes it; a successful search for a topic that is not
\* in it puts the topic at its front, and one for a topic that is in it leaves
\* it as it is.
C27_SearchHistory ==
    [][/\ NoDuplicate(research'.searchHistory)
       /\ Len(research'.searchHistory) <= 10
       /\ research'.searchHistory # research.searchHistory => SearchSucceeds(last')
       /\ SearchSucceeds(last') =>
              research'.searchHistory =
                  IF last'.req.body.topic \in Elements(research.searchHistory)
                  THEN research.searchHistory
                  ELSE <<last'.req.body.topic>>
                           \o SubSeq(research.searchHistory, 1,
                                     IF Len(research.searchHistory) < 9
                                     THEN Len(research.searchHistory) ELSE 9)]_vars

\* a new topic has been searched with ten topics in the history: it is at the
\* front, the tenth topic has left the history
C27_Witness ==
    /\ view = "research"
    /\ SearchSucceeds(last)
    /\ Len(research.searchHistory) = 10
    /\ research.searchHistory[1] = last.req.body.topic
    /\ research.searchHistory[2] = SearchedTopics[1]
    /\ SearchedTopics[10] \notin Elements(research.searchHistory)

\* C28: whenever suggestions are shown they are the response to a search for
\* the topic held in the topic field, the topic that the results heading, the
\* related papers and the resources name.
C28_ResultsMatchTopic ==
    SuggestionsShown =>
        \E data \in ResearchPayloads([body |-> [topic |-> ResultsTopic]]) :
            data # Null /\ data.suggestions = research.suggestions

\* C29: a successful upload leaves no selected file and an empty subject,
\* whatever was entered while the request was outstanding; a failed upload
\* leaves the file and the subject as they are when the response arrives.
C29_UploadFormReset ==
    [][last'.req.op = "uploadPDF" =>
           /\ last'.ev = "ok" => (upload'.file = NoFile /\ upload'.subject = <<>>)
           /\ last'.ev = "failed" =>
                  (upload'.file = upload.file /\ upload'.subject = upload.subject)]_vars

\* an upload has failed after the subject was changed during the wait: the
\* form holds the file and the changed subject
C29_Witness ==
    /\ view = "upload"
    /\ last.ev = "failed"
    /\ last.req.op = "uploadPDF"
    /\ upload.file # NoFile
    /\ upload.subject # <<>>
    /\ upload.subject # last.req.body.subject
    /\ ~upload.uploading

\* the interaction ids that successful ask responses have put in the transcript
AnsweredInteractions ==
    {ask.messages[i].interaction_id : i \in {j \in 1..Len(ask.messages) :
        /\ ask.messages[j].type = "assistant"
        /\ ask.messages[j].interaction_id # Undefined}}

\* the feedback requests of the mounted page that are not answered yet
FeedbackRequests ==
    {i \in 1..Len(inflight) : inflight[i].op = "submitFeedback"}

\* C30: every feedback request carries the interaction id of an answer of the
\* transcript and a rating of 5 or 2, and none is issued while the transcript
\* holds no answer with an interaction id.
C30_FeedbackFollowsAnswer ==
    /\ \A i \in FeedbackRequests :
           /\ inflight[i].body.interaction_id \in AnsweredInteractions
           /\ inflight[i].body.rating \in {5, 2}
    /\ (last.ev = "issued" /\ last.req.op = "submitFeedback") =>
           /\ AnsweredInteractions # {}
           /\ last.req.body.interaction_id \in AnsweredInteractions
           /\ last.req.body.rating \in {5, 2}

\* two feedback requests for the same interaction are outstanding, the second
\* just issued
C30_Witness ==
    /\ view = "ask"
    /\ last.ev = "issued"
    /\ last.req.op = "submitFeedback"
    /\ Len(inflight) = 2
    /\ FeedbackRequests = {1, 2}
    /\ inflight[1].body.interaction_id = inflight[2].body.interaction_id
    /\ inflight[1].body.interaction_id \in AnsweredInteractions

====
